---- MODULE Spec2Model ----
(***************************************************************************)
(* Model of src/src/agent.ts: the USD rates agent.  One request at a time  *)
(* runs one of the two entrypoints; every await of an outbound call        *)
(* (rate provider adapters, ai.chat) is one step of the state machine.     *)
(***************************************************************************)
EXTENDS Integers, Sequences, FiniteSets, TLC

\* ------------------------------------------------------------------ bounds
\* number of distinct rate tables a provider may serve
MaxRate == 1
\* longest generator text enumerated glyph by glyph
MaxTextLen == 3
\* most currency slots of one rate table that hold no number
MaxBadSlots == 2

\* --------------------------------------------------------------- JS values
\* A JavaScript scalar: its typeof tag, a numeric payload (rates are held
\* in units of 10^-5) and a string payload.
JsUndefined == [t |-> "undefined", n |-> 0, s |-> ""]
JsNull == [t |-> "null", n |-> 0, s |-> ""]
JsNumber(n) == [t |-> "number", n |-> n, s |-> ""]
JsString(s) == [t |-> "string", n |-> 0, s |-> s]

\* typeof x
TypeOf(x) == IF x.t = "null" THEN "object" ELSE x.t

\* Number.isNaN(x)
NumberIsNaN(x) == x.t = "number" /\ x.s = "NaN"

\* !x is false
Truthy(x) == x.t \notin {"undefined", "null"}

\* --------------------------------------------------------- program constants
TOP_CURRENCIES == <<"EUR", "CNY", "JPY", "GBP", "AUD">>

PrimaryProvider == "open.er-api"
\* fault: the second adapter keeps the tag of the first
CopiedProviderTag == "open.er-api"
SecondaryProvider == "fawazahmed0/currency-api"

\* currency.toLowerCase()
ToLowerCase(c) ==
  CASE c = "EUR" -> "eur"
    [] c = "CNY" -> "cny"
    [] c = "JPY" -> "jpy"
    [] c = "GBP" -> "gbp"
    [] c = "AUD" -> "aud"
    [] OTHER -> c

\* ------------------------------------------------------ provider responses
\* A JSON object is a sequence of [k, val] members in the provider's order.
NoObject(t) == [t |-> t, entries |-> <<>>]
JsObject(entries) == [t |-> "object", entries |-> entries]

\* obj[key]: the member's value, undefined when absent or obj is no object
Index(obj, key) ==
  IF obj.t = "object" /\ \E i \in 1..Len(obj.entries) : obj.entries[i].k = key
  THEN LET i == CHOOSE j \in 1..Len(obj.entries) :
                  /\ obj.entries[j].k = key
                  /\ \A m \in (j + 1)..Len(obj.entries) : obj.entries[m].k # key
       IN obj.entries[i].val
  ELSE JsUndefined

\* the rate a provider quotes for the i-th currency in its table number k
SampleRate(k, i) == k * 92340 + 2 * i

\* what a provider may put in one currency slot: nothing, a quoted string,
\* or a number
SlotChoices == {"absent", "string"} \cup {"number"}

SlotValue(choice, k, i) ==
  CASE choice = "absent" -> JsUndefined
    [] choice = "string" -> JsString("1.08")
    [] OTHER -> JsNumber(SampleRate(k, i))

\* the fillings of the five slots of one table
SlotFillings ==
  {f \in [1..5 -> SlotChoices] :
     Cardinality({i \in 1..5 : f[i] # "number"}) <= MaxBadSlots}

\* member orders a provider may use
KeyOrders == {<<1, 2, 3, 4, 5>>, <<5, 4, 3, 2, 1>>}

KeyOf(case, c) == IF case = "lower" THEN ToLowerCase(c) ELSE c

RateObject(order, case, choice, k) ==
  LET all == [j \in 1..5 |->
                [k |-> KeyOf(case, TOP_CURRENCIES[order[j]]),
                 val |-> SlotValue(choice[order[j]], k, order[j])]]
      Present(m) == m.val.t # "undefined"
  IN JsObject(SelectSeq(all, Present))

RateContainers ==
  {NoObject("undefined"), NoObject("null"), NoObject("string")} \cup
  {RateObject(order, case, choice, k) :
     order \in KeyOrders, case \in {"upper", "lower"},
     choice \in SlotFillings, k \in 1..MaxRate}

\* A response body: not JSON at all, JSON null, a JSON primitive, or an
\* object with the members the two adapters read.
BodyOf(kind, result, rates, time, usd, date) ==
  [kind |-> kind, result |-> result, rates |-> rates,
   time_last_update_utc |-> time, usd |-> usd, date |-> date]

PlainBodies ==
  {BodyOf(kind, JsUndefined, NoObject("undefined"), JsUndefined,
          NoObject("undefined"), JsUndefined) :
     kind \in {"garbage", "null", "primitive"}}

PrimaryBodies ==
  PlainBodies \cup
  {BodyOf("object", result, rates, time, NoObject("undefined"), JsUndefined) :
     result \in {JsString("success"), JsString("error"), JsUndefined},
     rates \in RateContainers,
     time \in {JsString("Mon, 02 Nov 2026 00:02:31 +0000"), JsUndefined}}

SecondaryBodies ==
  PlainBodies \cup
  {BodyOf("object", JsUndefined, NoObject("undefined"), JsUndefined, usd, date) :
     usd \in RateContainers,
     date \in {JsString("2026-11-02"), JsUndefined}}

Statuses == {200, 503}

\* response.ok
ResponseOk(status) == status >= 200 /\ status <= 299

\* --------------------------------------------------------------- messages
\* An error message is a sequence of text fragments.
FetchFailedMessage == <<"fetch failed">>
JsonSyntaxMessage == <<"Unexpected token < in JSON at position 0">>
NullPropertyMessage(prop) ==
  <<"Cannot read properties of null (reading '", prop, "')">>

\* does text contain part as a contiguous run of fragments
Contains(text, part) ==
  \E i \in 1..(Len(text) - Len(part) + 1) :
     SubSeq(text, i, i + Len(part) - 1) = part

\* ---------------------------------------------------------------- adapters
NoRates == [rates |-> <<>>, updatedAt |-> JsUndefined, provider |-> ""]
Resolved(value) == [ok |-> TRUE, value |-> value, message |-> <<>>]
Rejected(message) == [ok |-> FALSE, value |-> NoRates, message |-> message]
Pending == [ok |-> FALSE, value |-> NoRates, message |-> <<"pending">>]

\* fault: any value that is present passes
BadRateIfAbsent(rate) == TypeOf(rate) = "undefined"

\* typeof rate !== "number" || Number.isNaN(rate)
BadRate(rate) == TypeOf(rate) # "number" \/ NumberIsNaN(rate)

\* the loop over TOP_CURRENCIES: index of the first currency whose rate is
\* rejected, 0 when all five pass
FirstBad(obj, case) ==
  LET bad == {i \in 1..5 : BadRate(Index(obj, KeyOf(case, TOP_CURRENCIES[i])))}
  IN IF bad = {} THEN 0 ELSE CHOOSE i \in bad : \A j \in bad : i <= j

\* fault: the record is filled under the provider's own keys
CollectedUnderProviderKeys(obj, case) ==
  [i \in 1..5 |-> [k |-> KeyOf(case, TOP_CURRENCIES[i]),
                   val |-> Index(obj, KeyOf(case, TOP_CURRENCIES[i]))]]

\* the rates record the loop fills, keyed by the declared codes in
\* declared order
Collected(obj, case) ==
  [i \in 1..5 |-> [k |-> TOP_CURRENCIES[i],
                   val |-> Index(obj, KeyOf(case, TOP_CURRENCIES[i]))]]

\* fetchFromOpenErApi, from the resolved fetch onwards (lines 181-210)
OpenErApiOutcome(status, body) ==
  IF body.kind = "garbage" THEN Rejected(JsonSyntaxMessage)
  ELSE IF ~ResponseOk(status)
    THEN Rejected(<<"open.er-api responded with unexpected status ",
                    ToString(status), ".">>)
  ELSE IF body.kind = "null" THEN Rejected(NullPropertyMessage("result"))
  ELSE IF body.kind # "object"
          \/ ~(body.result.t = "string" /\ body.result.s = "success")
          \/ ~Truthy(body.rates)
    THEN Rejected(<<"open.er-api response did not contain USD rate data.">>)
  ELSE IF FirstBad(body.rates, "upper") # 0
    THEN Rejected(<<"open.er-api missing rate for ",
                    TOP_CURRENCIES[FirstBad(body.rates, "upper")], ".">>)
  ELSE Resolved([rates |-> JsObject(Collected(body.rates, "upper")),
                 updatedAt |-> body.time_last_update_utc,
                 provider |-> PrimaryProvider])

\* fetchFromJsDelivr, from the resolved fetch onwards (lines 217-245)
JsDelivrOutcome(status, body) ==
  IF body.kind = "garbage" THEN Rejected(JsonSyntaxMessage)
  ELSE IF ~ResponseOk(status)
    THEN Rejected(<<"jsDelivr currency API responded with unexpected status ",
                    ToString(status), ".">>)
  ELSE IF body.kind = "null" THEN Rejected(NullPropertyMessage("usd"))
  ELSE IF body.kind # "object" \/ ~Truthy(body.usd)
    THEN Rejected(<<"jsDelivr currency API response did not include usd rates.">>)
  ELSE IF FirstBad(body.usd, "lower") # 0
    THEN Rejected(<<"jsDelivr currency API missing rate for ",
                    TOP_CURRENCIES[FirstBad(body.usd, "lower")], ".">>)
  ELSE Resolved([rates |-> JsObject(Collected(body.usd, "lower")),
                 updatedAt |-> body.date,
                 provider |-> SecondaryProvider])

\* fault: the aggregate reports the primary failure only
AggregatePrimaryOnly(primaryMessage, fallbackMessage) ==
  <<"Unable to fetch USD conversion rates from available providers (primary: ">>
  \o primaryMessage \o <<").">>

\* the Error thrown when both adapters have failed
AggregateMessage(primaryMessage, fallbackMessage) ==
  <<"Unable to fetch USD conversion rates from available providers (primary: ">>
  \o primaryMessage \o <<"; fallback: ">> \o fallbackMessage \o <<").">>

\* the console.warn line of the fallback
PrimaryWarning(primaryMessage) ==
  <<"[usd-conversions] primary rates provider failed: ">> \o primaryMessage

\* -------------------------------------------------------------- normalizer
\* mapRatesFromRecord: the five entries in declared order, or the error of
\* the first currency without a usable rate
MapRatesFromRecord(rateRecord) ==
  IF FirstBad(rateRecord, "upper") # 0
  THEN [ok |-> FALSE, entries |-> <<>>,
        message |-> <<"Missing rate for ",
                      TOP_CURRENCIES[FirstBad(rateRecord, "upper")], ".">>]
  ELSE [ok |-> TRUE,
        entries |-> [i \in 1..5 |->
                       [currency |-> TOP_CURRENCIES[i],
                        rate |-> Index(rateRecord, TOP_CURRENCIES[i])]],
        message |-> <<>>]

\* typeof updatedAt === "string" ? updatedAt : new Date().toISOString()
Timestamp(updatedAt) ==
  IF TypeOf(updatedAt) = "string" THEN updatedAt
  ELSE JsString("2026-11-04T00:00:00.000Z")

\* ------------------------------------------------------------------- text
\* Text is a sequence of glyphs.  A glyph is one character, or a run of
\* letters (a word) that no operation of the handler splits.  There is no
\* backslash glyph, so JSON strings carry no escapes.
Whitespace == {" ", "\n", "\t"}
Digits == {"0", "1"}

\* the character class of /^[\-\*\d\.\s]+/
StripClass == {"-", "*", "."} \cup Digits \cup Whitespace

\* index of the first glyph at or after i that is not in class, Len(s)+1
\* when there is none
SkipWhile(s, i, class) ==
  LET rest == {j \in i..Len(s) : s[j] \notin class}
  IN IF rest = {} THEN Len(s) + 1 ELSE CHOOSE j \in rest : \A m \in rest : j <= m

\* index of the first glyph at or after i that is in class, Len(s)+1 when
\* there is none
SkipUntil(s, i, class) ==
  LET hits == {j \in i..Len(s) : s[j] \in class}
  IN IF hits = {} THEN Len(s) + 1 ELSE CHOOSE j \in hits : \A m \in hits : j <= m

\* s.trim()
Trim(s) ==
  LET keep == {j \in 1..Len(s) : s[j] \notin Whitespace}
  IN IF keep = {} THEN <<>>
     ELSE SubSeq(s, CHOOSE j \in keep : \A m \in keep : j <= m,
                    CHOOSE j \in keep : \A m \in keep : j >= m)

\* line.replace(/^[\-\*\d\.\s]+/, "")
StripLead(line) == SubSeq(line, SkipWhile(line, 1, StripClass), Len(line))

\* s.split(/\n+/)
RECURSIVE SplitLines(_)
SplitLines(s) ==
  LET nl == SkipUntil(s, 1, {"\n"})
  IN IF nl > Len(s) THEN <<s>>
     ELSE <<SubSeq(s, 1, nl - 1)>>
          \o SplitLines(SubSeq(s, SkipWhile(s, nl, {"\n"}), Len(s)))

\* rate.toFixed(4) of a rate held in units of 10^-5
ToFixed4(n) ==
  LET q == (n + 5) \div 10
  IN <<ToString(q \div 10000), ".",
       ToString((q \div 1000) % 10), ToString((q \div 100) % 10),
       ToString((q \div 10) % 10), ToString(q % 10)>>

\* ------------------------------------------------------------- JSON.parse
JNull == [t |-> "null"]
JBool(b) == [t |-> "boolean", s |-> <<b>>]
JNum(text) == [t |-> "number", s |-> text]
JStr(text) == [t |-> "string", s |-> text]
JArr(items) == [t |-> "array", items |-> items]
JObj(members) == [t |-> "object", members |-> members]

Parsed(val, next) == [ok |-> TRUE, val |-> val, next |-> next]
SyntaxError == [ok |-> FALSE, val |-> JNull, next |-> 0]

\* String(x) of a parsed number: the shortest decimal text of its value
NumberToString(neg, int, frac) ==
  LET nz == {j \in 1..Len(frac) : frac[j] # "0"}
      last == IF nz = {} THEN 0 ELSE CHOOSE j \in nz : \A m \in nz : j >= m
      body == IF last = 0 THEN int ELSE int \o <<".">> \o SubSeq(frac, 1, last)
  IN IF neg /\ body # <<"0">> THEN <<"-">> \o body ELSE body

\* number: -? (0 | [1-9][0-9]*) (. [0-9]+)?
ParseNumber(s, i) ==
  LET neg == s[i] = "-"
      a == IF neg THEN i + 1 ELSE i
      b == SkipWhile(s, a, Digits)
      hasFrac == b <= Len(s) /\ s[b] = "."
      c == IF hasFrac THEN SkipWhile(s, b + 1, Digits) ELSE b
  IN IF b = a \/ (b - a > 1 /\ s[a] = "0") \/ (hasFrac /\ c = b + 1)
     THEN SyntaxError
     ELSE Parsed(JNum(NumberToString(neg, SubSeq(s, a, b - 1),
                                     SubSeq(s, b + 1, c - 1))), c)

\* string: " chars " with no raw control character inside
ParseString(s, i) ==
  LET close == SkipUntil(s, i + 1, {"\""})
  IN IF close > Len(s)
        \/ \E j \in (i + 1)..(close - 1) : s[j] \in {"\n", "\t"}
     THEN SyntaxError
     ELSE Parsed(JStr(SubSeq(s, i + 1, close - 1)), close + 1)

RECURSIVE ParseValue(_, _), ParseElements(_, _, _), ParseMembers(_, _, _)

ParseValue(s, i0) ==
  LET i == SkipWhile(s, i0, Whitespace)
  IN IF i > Len(s) THEN SyntaxError
     ELSE CASE s[i] = "null" -> Parsed(JNull, i + 1)
            [] s[i] \in {"true", "false"} -> Parsed(JBool(s[i]), i + 1)
            [] s[i] \in Digits \cup {"-"} -> ParseNumber(s, i)
            [] s[i] = "\"" -> ParseString(s, i)
            [] s[i] = "[" ->
                 LET j == SkipWhile(s, i + 1, Whitespace)
                 IN IF j <= Len(s) /\ s[j] = "]" THEN Parsed(JArr(<<>>), j + 1)
                    ELSE ParseElements(s, i + 1, <<>>)
            [] s[i] = "{" ->
                 LET j == SkipWhile(s, i + 1, Whitespace)
                 IN IF j <= Len(s) /\ s[j] = "}" THEN Parsed(JObj(<<>>), j + 1)
                    ELSE ParseMembers(s, i + 1, <<>>)
            [] OTHER -> SyntaxError

\* an array after one element v: "]" closes it, "," continues it
AfterElement(s, v, j, acc) ==
  IF ~v.ok \/ j > Len(s) THEN SyntaxError
  ELSE IF s[j] = "]" THEN Parsed(JArr(Append(acc, v.val)), j + 1)
  ELSE IF s[j] = "," THEN ParseElements(s, j + 1, Append(acc, v.val))
  ELSE SyntaxError

\* the rest of a value: where the next token starts
Follow(s, v) == IF v.ok THEN SkipWhile(s, v.next, Whitespace) ELSE 0

\* elements of an array, i just after "[" or ","
ParseElements(s, i, acc) ==
  LET v == ParseValue(s, i) IN AfterElement(s, v, Follow(s, v), acc)

\* an object after one member key: v: "}" closes it, "," continues it
AfterMember(s, key, v, j, acc) ==
  IF ~v.ok \/ j > Len(s) THEN SyntaxError
  ELSE IF s[j] = "}"
    THEN Parsed(JObj(Append(acc, [k |-> key.val.s, val |-> v.val])), j + 1)
  ELSE IF s[j] = ","
    THEN ParseMembers(s, j + 1, Append(acc, [k |-> key.val.s, val |-> v.val]))
  ELSE SyntaxError

\* the value of a member, after its key and the colon at index colon
AfterKey(s, key, colon, acc) ==
  IF ~key.ok \/ colon > Len(s) THEN SyntaxError
  ELSE IF s[colon] # ":" THEN SyntaxError
  ELSE LET v == ParseValue(s, colon + 1) IN AfterMember(s, key, v, Follow(s, v), acc)

\* the key of a member, k0 the index of its first token
ParseKey(s, k0) ==
  IF k0 > Len(s) THEN SyntaxError
  ELSE IF s[k0] = "\"" THEN ParseString(s, k0) ELSE SyntaxError

\* members of an object, i just after "{" or ","
ParseMembers(s, i, acc) ==
  LET key == ParseKey(s, SkipWhile(s, i, Whitespace))
  IN AfterKey(s, key, Follow(s, key), acc)

\* one value, then only whitespace up to the end
WholeText(text, v) ==
  IF v.ok /\ SkipWhile(text, v.next, Whitespace) > Len(text) THEN v
  ELSE SyntaxError

\* JSON.parse(text)
JsonParse(text) == WholeText(text, ParseValue(text, 1))

\* value.name of a parsed value; undefined (ok = FALSE) when the value is
\* no object or has no such member; the last of duplicate members wins
Member(value, name) ==
  LET hits == IF value.t = "object"
              THEN {j \in 1..Len(value.members) : value.members[j].k = <<name>>}
              ELSE {}
  IN IF hits = {} THEN [ok |-> FALSE, val |-> JNull]
     ELSE [ok |-> TRUE,
           val |-> value.members[CHOOSE j \in hits : \A m \in hits : j >= m].val]

\* String(item) of a parsed value
RECURSIVE ToStr(_), JoinItems(_, _)
ToStr(value) ==
  CASE value.t = "null" -> <<"null">>
    [] value.t \in {"boolean", "number", "string"} -> value.s
    [] value.t = "array" -> JoinItems(value.items, 1)
    [] OTHER -> <<"[", "object", " ", "Object", "]">>

\* Array.prototype.join: null elements print as the empty string
JoinItems(items, i) ==
  IF i > Len(items) THEN <<>>
  ELSE (IF items[i].t = "null" THEN <<>> ELSE ToStr(items[i]))
       \o (IF i < Len(items) THEN <<",">> ELSE <<>>)
       \o JoinItems(items, i + 1)

NonEmpty(line) == Len(line) > 0

\* ------------------------------------------------- summary extraction
\* lines 371-396: summary and highlights taken from the generator's text
MapTrimToStr(items) == [j \in 1..Len(items) |-> Trim(ToStr(items[j]))]
MapStripTrim(lines) == [j \in 1..Len(lines) |-> Trim(StripLead(lines[j]))]

\* fault: every line after the first becomes a highlight
SplitFallbackUncapped(rawContent) ==
  LET lines == SelectSeq(MapStripTrim(SplitLines(rawContent)), NonEmpty)
  IN IF Len(lines) > 0
     THEN [summary |-> lines[1], highlights |-> Tail(lines), branch |-> "split"]
     ELSE [summary |-> rawContent, highlights |-> <<>>, branch |-> "split"]

\* the catch branch: the text split into lines
SplitFallback(rawContent) ==
  LET lines == SelectSeq(MapStripTrim(SplitLines(rawContent)), NonEmpty)
  IN IF Len(lines) > 0
     THEN [summary |-> lines[1],
           highlights |-> SubSeq(lines, 2, IF Len(lines) < 4 THEN Len(lines) ELSE 4),
           branch |-> "split"]
     ELSE [summary |-> rawContent, highlights |-> <<>>, branch |-> "split"]

\* the try block throws when JSON.parse throws or the parsed value is null
\* (reading parsed.summary of null)
TryThrows(parse) == ~parse.ok \/ parse.val.t = "null"

\* the try block on a parsed value that is not null
FromJson(rawContent, sum, hl) ==
  [summary |-> IF sum.ok /\ sum.val.t = "string"
               THEN Trim(sum.val.s) ELSE rawContent,
   highlights |-> IF hl.ok /\ hl.val.t = "array"
                  THEN SelectSeq(MapTrimToStr(hl.val.items), NonEmpty)
                  ELSE <<>>,
   branch |-> "json"]

Extract(rawContent, parse) ==
  IF TryThrows(parse) THEN SplitFallback(rawContent)
  ELSE FromJson(rawContent, Member(parse.val, "summary"),
                Member(parse.val, "highlights"))

ExtractSummary(rawContent) == Extract(rawContent, JsonParse(rawContent))

\* lines 398-404: highlights made from the first three rate entries
SynthHighlights(rates) ==
  [j \in 1..(IF Len(rates) < 3 THEN Len(rates) ELSE 3) |->
     <<"USD", "/", rates[j].currency, " ", "trades", " ", "near", " ">>
     \o ToFixed4(rates[j].rate.n) \o <<".">>]

FinalHighlights(extracted, rates) ==
  IF Len(extracted.highlights) = 0 THEN SynthHighlights(rates)
  ELSE extracted.highlights

\* ------------------------------------------------------- generator replies
\* glyphs enumerated exhaustively up to MaxTextLen
SmallGlyphs == {"-", "1", " ", "\n", "a", "null", "[", "]"}

SmallTexts == UNION {[1..n -> SmallGlyphs] : n \in 0..MaxTextLen}

Q == "\""

\* longer texts a generator typically returns
SampleTexts == {
  <<"{", Q, "summary", Q, ":", Q, "USD", " ", "strengthens", Q, ",",
    Q, "highlights", Q, ":", "[", Q, "EUR", " ", "down", " ", "1", "%", Q, "]", "}">>,
  <<"Rates", " ", "look", " ", "stable", ".", "\n", "-", " ", "EUR", " ", "flat",
    "\n", "-", " ", "JPY", " ", "flat">>,
  <<"{", Q, "summary", Q, ":", Q, " ", "USD", " ", "firm", " ", Q, ",", " ",
    Q, "highlights", Q, ":", " ", "[", Q, " ", Q, ",", "1", ".", "1", "0", ",",
    "null", ",", "[", Q, "a", Q, ",", "null", ",", "-", "0", "]", ",", "{", "}",
    ",", "true", "]", "}">>,
  <<"{", Q, "highlights", Q, ":", "[", Q, " ", Q, "]", "}">>,
  <<"{", Q, "summary", Q, ":", "1", ",", Q, "highlights", Q, ":", Q, "x", Q, "}">>,
  <<"{", Q, "summary", Q, ":", Q, "old", Q, ",", Q, "summary", Q, ":", Q, "new", Q, "}">>,
  <<"{", Q, "summary", Q, ":", Q, "cut", " ", "off">>,
  <<"1", "0", "1", "1", " ", "outlook", "\n", "\n", "1", ".", " ", "EUR", "\n",
    "*", " ", "JPY", "\n", "-", "-", "-", "\n", "1", ".", "GBP", "\n", "-", "AUD",
    "\n", "CNY">>,
  <<"#", " ", "Brief", "\n", "{", Q, "summary", Q, ":", Q, "headed", Q, "}">>
}

ChatReply(kind, content) == [kind |-> kind, content |-> content]

\* ai.chat rejects, or resolves with results that are no array, with a first
\* result whose content is no string, or with a text
ChatReplies ==
  {ChatReply(kind, <<>>) : kind \in {"reject", "no-results", "no-string"}}
  \cup {ChatReply("text", c) : c \in SmallTexts \cup SampleTexts}

ChatFailedMessage == <<"Request to the LLM provider failed.">>

\* ------------------------------------------------------------------ inputs
\* input of usd-market-summary: focus (a text, or absent) and tone
SummaryInput(hasFocus, focus, tone) ==
  [hasFocus |-> hasFocus, focus |-> focus, tone |-> tone]

NoInput == SummaryInput(FALSE, <<>>, "undefined")

SummaryInputs ==
  {NoInput,
   SummaryInput(TRUE, <<" ">>, "neutral"),
   SummaryInput(TRUE, <<" ", "Asia", " ", "open", " ">>, "cautious")}

\* lines 324-343: the user prompt, one field per section joined by "\n\n"
UserPrompt(in, timestamp, rates) ==
  LET focus == IF in.hasFocus THEN Trim(in.focus) ELSE <<>>
      tone == IF in.tone = "undefined" THEN "neutral" ELSE in.tone
  IN [header |-> <<"Latest USD conversion rates (base USD) as of ",
                   timestamp.s, ":">>,
      rateLines |-> [j \in 1..Len(rates) |->
                       <<rates[j].currency, ": ">> \o ToFixed4(rates[j].rate.n)],
      focusLine |-> IF Len(focus) > 0 THEN <<"Caller focus: ">> \o focus
                    ELSE <<"Highlight notable moves and practical implications for a general audience.">>,
      toneInstruction |-> IF tone = "neutral"
                          THEN <<"Keep the tone neutral and factual.">>
                          ELSE <<"Adopt a ", tone, " tone while staying factual.">>]

NoPrompt == [header |-> <<>>, rateLines |-> <<>>, focusLine |-> <<>>,
             toneInstruction |-> <<>>]

\* ------------------------------------------------------------------- state
VARIABLES
  axClient,        \* the generator client: ax present, isConfigured(), getName()
  bootLog,         \* console output of module load
  entry,           \* entrypoint of the request being handled
  input,           \* its input
  pc,              \* where the handler is suspended
  response,        \* the HTTP response whose body is being read
  calls,           \* outbound calls issued by this request, per target
  inflight,        \* outbound calls issued and not yet settled
  primaryOutcome,  \* how fetchFromOpenErApi settled
  fallbackOutcome, \* how fetchFromJsDelivr settled
  fetched,         \* how fetchUsdRates settled
  prompt,          \* user prompt sent to ai.chat
  rawContent,      \* trimmed text of the generator's first result
  strategy,        \* which extraction branch ran: "json", "split" or "none"
  result,          \* what the handler returned or threw
  warnings         \* console.warn lines of this request

vars == <<axClient, bootLog, entry, input, pc, response, calls, inflight, primaryOutcome,
          fallbackOutcome, fetched, prompt, rawContent, strategy, result,
          warnings>>

NoResponse == [status |-> 0, body |-> CHOOSE b \in PlainBodies : b.kind = "null"]
NoCalls == [primary |-> 0, secondary |-> 0, llm |-> 0]
NoOutput == [base |-> ""]
NoResult == [kind |-> "none", output |-> NoOutput, model |-> "", message |-> <<>>]
Returned(output, model) ==
  [kind |-> "output", output |-> output, model |-> model, message |-> <<>>]
Thrown(message) ==
  [kind |-> "error", output |-> NoOutput, model |-> "", message |-> message]

ConfigMessage ==
  <<"LLM provider is not configured. Set OPENAI_API_KEY to enable market summaries.">>
NoContentMessage == <<"LLM did not return any content.">>
BootWarning ==
  <<"[examples] Ax LLM provider not configured ", "-",
    " the flow will fall back to scripted output.">>

\* getName() is "" when the client names no model
AxClients ==
  {[ax |-> ax, configured |-> conf, name |-> name] :
     ax \in BOOLEAN, conf \in BOOLEAN, name \in {"openai", ""}}

\* the clients createAxLLMClient may hand out: only a usable one has a name
LoadedClients ==
  {c \in AxClients : IF c.ax /\ c.configured THEN TRUE ELSE c.name = ""}

\* lines 67-95: module load
Init ==
  /\ axClient \in LoadedClients
  /\ bootLog = IF ~axClient.configured THEN <<BootWarning>> ELSE <<>>
  /\ entry = "none"
  /\ input = NoInput
  /\ pc = "idle"
  /\ response = NoResponse
  /\ calls = NoCalls
  /\ inflight = {}
  /\ primaryOutcome = Pending
  /\ fallbackOutcome = Pending
  /\ fetched = Pending
  /\ prompt = NoPrompt
  /\ rawContent = <<>>
  /\ strategy = "none"
  /\ result = NoResult
  /\ warnings = <<>>

\* fault: both providers are fetched at once
CallBothProviders ==
  /\ pc' = "primary_fetch"
  /\ calls' = [calls EXCEPT !.primary = @ + 1, !.secondary = @ + 1]
  /\ inflight' = inflight \cup {"primary", "secondary"}
  /\ UNCHANGED <<response, primaryOutcome, fallbackOutcome, fetched, prompt,
                 rawContent, strategy, result, warnings>>

\* fetchUsdRates up to its first await: fetchFromOpenErApi issues its fetch
CallPrimary ==
  /\ pc' = "primary_fetch"
  /\ calls' = [calls EXCEPT !.primary = @ + 1]
  /\ inflight' = inflight \cup {"primary"}
  /\ UNCHANGED <<response, primaryOutcome, fallbackOutcome, fetched, prompt,
                 rawContent, strategy, result, warnings>>

\* usd-conversions handler, line 265 up to the await
StartConversions ==
  /\ pc = "idle"
  /\ entry' = "usd-conversions"
  /\ input' = NoInput
  /\ CallPrimary
  /\ UNCHANGED <<axClient, bootLog>>

\* fault: the guard looks at the client object only
GeneratorMissingNoClient(client) == ~client.ax

\* the guard of usd-market-summary, line 311
GeneratorMissing(client) == ~client.ax \/ ~client.configured

\* fault: the rates are fetched before the generator is looked at
StartSummaryFetchesFirst ==
  /\ pc = "idle"
  /\ entry' = "usd-market-summary"
  /\ \E in \in SummaryInputs : input' = in
  /\ CallPrimary
  /\ UNCHANGED <<axClient, bootLog>>

\* usd-market-summary handler, lines 310-317 up to the await
StartSummary ==
  /\ pc = "idle"
  /\ entry' = "usd-market-summary"
  /\ \E in \in SummaryInputs : input' = in
  /\ IF GeneratorMissing(axClient)
     THEN /\ pc' = "thrown"
          /\ result' = Thrown(ConfigMessage)
          /\ UNCHANGED <<response, calls, inflight, primaryOutcome,
                         fallbackOutcome, fetched, prompt, rawContent, strategy,
                         warnings>>
     ELSE CallPrimary
  /\ UNCHANGED <<axClient, bootLog>>

\* the handlers from the resolution of fetchUsdRates up to their next await
\* or their return: lines 266-279 and 318-357
AfterRates(e, in, client, value) ==
  LET mapped == MapRatesFromRecord(value.rates)
      timestamp == Timestamp(value.updatedAt)
  IN IF ~mapped.ok
     THEN [pc |-> "thrown", result |-> Thrown(mapped.message), prompt |-> NoPrompt]
     ELSE IF e = "usd-conversions"
     THEN [pc |-> "returned",
           result |-> Returned([base |-> "USD", rates |-> mapped.entries,
                                updatedAt |-> timestamp], value.provider),
           prompt |-> NoPrompt]
     ELSE [pc |-> "chat", result |-> NoResult,
           prompt |-> UserPrompt(in, timestamp, mapped.entries)]

\* fetchUsdRates returns value to the handler, which runs on
RatesReturned(settled, value) ==
  LET next == AfterRates(entry, input, axClient, value)
  IN /\ fetched' = Resolved(value)
     /\ pc' = next.pc
     /\ result' = next.result
     /\ prompt' = next.prompt
     /\ calls' = IF next.pc = "chat" THEN [calls EXCEPT !.llm = @ + 1] ELSE calls
     /\ inflight' = (inflight \ {settled})
                    \cup (IF next.pc = "chat" THEN {"llm"} ELSE {})
     /\ UNCHANGED <<rawContent, strategy, warnings>>

\* lines 156-166: the catch of the primary failure, up to the await of
\* fetchFromJsDelivr
FallBack(primaryMessage) ==
  /\ warnings' = Append(warnings, PrimaryWarning(primaryMessage))
  /\ pc' = "secondary_fetch"
  /\ calls' = [calls EXCEPT !.secondary = @ + 1]
  /\ inflight' = (inflight \ {"primary"}) \cup {"secondary"}
  /\ UNCHANGED <<fetched, prompt, rawContent, strategy, result>>

\* lines 167-175: both adapters failed; the handler rethrows
GiveUp(primaryMessage, fallbackMessage) ==
  /\ fetched' = Rejected(AggregateMessage(primaryMessage, fallbackMessage))
  /\ pc' = "thrown"
  /\ result' = Thrown(AggregateMessage(primaryMessage, fallbackMessage))
  /\ inflight' = inflight \ {"secondary"}
  /\ UNCHANGED <<calls, prompt, rawContent, strategy, warnings>>

\* the responses a rate provider may send: a status and a body
Responses(bodies) == {[status |-> st, body |-> b] : st \in Statuses, b \in bodies}

PrimaryResponses == Responses(PrimaryBodies)
SecondaryResponses == Responses(SecondaryBodies)

\* line 180: the fetch of fetchFromOpenErApi settles; a rejection is the
\* adapter's failure, a response is read as JSON next
PrimaryResponds ==
  /\ pc = "primary_fetch"
  /\ \/ /\ primaryOutcome' = Rejected(FetchFailedMessage)
        /\ FallBack(FetchFailedMessage)
        /\ UNCHANGED response
     \/ /\ \E r \in PrimaryResponses : response' = r
        /\ pc' = "primary_json"
        /\ UNCHANGED <<primaryOutcome, calls, inflight, fetched, prompt,
                       rawContent, strategy, result, warnings>>
  /\ UNCHANGED <<axClient, bootLog, entry, input, fallbackOutcome>>

\* fault: the fallback runs after Primary whether or not it failed
PrimaryParsedThenFallsBack ==
  /\ pc = "primary_json"
  /\ primaryOutcome' = OpenErApiOutcome(response.status, response.body)
  /\ FallBack(OpenErApiOutcome(response.status, response.body).message)
  /\ response' = NoResponse
  /\ UNCHANGED <<axClient, bootLog, entry, input, fallbackOutcome>>

\* lines 181-210: response.json() settles and fetchFromOpenErApi finishes
PrimaryParsed ==
  /\ pc = "primary_json"
  /\ LET out == OpenErApiOutcome(response.status, response.body)
     IN /\ primaryOutcome' = out
        /\ IF out.ok THEN RatesReturned("primary", out.value)
           ELSE FallBack(out.message)
  /\ response' = NoResponse
  /\ UNCHANGED <<axClient, bootLog, entry, input, fallbackOutcome>>

\* line 214: the fetch of fetchFromJsDelivr settles
SecondaryResponds ==
  /\ pc = "secondary_fetch"
  /\ \/ /\ fallbackOutcome' = Rejected(FetchFailedMessage)
        /\ GiveUp(primaryOutcome.message, FetchFailedMessage)
        /\ UNCHANGED response
     \/ /\ \E r \in SecondaryResponses : response' = r
        /\ pc' = "secondary_json"
        /\ UNCHANGED <<fallbackOutcome, calls, inflight, fetched, prompt,
                       rawContent, strategy, result, warnings>>
  /\ UNCHANGED <<axClient, bootLog, entry, input, primaryOutcome>>

\* lines 217-245: response.json() settles and fetchFromJsDelivr finishes
SecondaryParsed ==
  /\ pc = "secondary_json"
  /\ LET out == JsDelivrOutcome(response.status, response.body)
     IN /\ fallbackOutcome' = out
        /\ IF out.ok THEN RatesReturned("secondary", out.value)
           ELSE GiveUp(primaryOutcome.message, out.message)
  /\ response' = NoResponse
  /\ UNCHANGED <<axClient, bootLog, entry, input, primaryOutcome>>

\* lines 359-365: the trimmed content of the first result, "" when absent
RawContent(reply) == IF reply.kind = "text" THEN Trim(reply.content) ELSE <<>>

\* lines 398-416: the output of the summary handler
SummaryOutput(client, value, rates, extracted) ==
  Returned([base |-> "USD",
            updatedAt |-> Timestamp(value.updatedAt),
            summary |-> extracted.summary,
            highlights |-> FinalHighlights(extracted, rates),
            dataProvider |-> value.provider,
            rates |-> rates],
           IF client.name # "" THEN client.name ELSE value.provider)

\* lines 367-416: the summary handler from the generator's text to its end
AfterChat(client, value, raw) ==
  IF Len(raw) = 0
  THEN [pc |-> "thrown", result |-> Thrown(NoContentMessage), strategy |-> "none"]
  ELSE LET extracted == ExtractSummary(raw)
       IN [pc |-> "returned",
           result |-> SummaryOutput(client, value,
                                    MapRatesFromRecord(value.rates).entries,
                                    extracted),
           strategy |-> extracted.branch]

ChatDone(raw, next) ==
  /\ rawContent' = raw
  /\ result' = next.result
  /\ pc' = next.pc
  /\ strategy' = next.strategy

\* await ai.chat(...) settles
ChatSettles ==
  /\ pc = "chat"
  /\ \E reply \in ChatReplies :
       IF reply.kind = "reject"
       THEN /\ result' = Thrown(ChatFailedMessage)
            /\ pc' = "thrown"
            /\ UNCHANGED <<rawContent, strategy>>
       ELSE ChatDone(RawContent(reply),
                     AfterChat(axClient, fetched.value, RawContent(reply)))
  /\ inflight' = inflight \ {"llm"}
  /\ UNCHANGED <<axClient, bootLog, entry, input, response, calls,
                 primaryOutcome, fallbackOutcome, fetched, prompt, warnings>>

\* the response is sent; the server takes the next request
NextRequest ==
  /\ pc \in {"returned", "thrown"}
  /\ entry' = "none"
  /\ input' = NoInput
  /\ pc' = "idle"
  /\ response' = NoResponse
  /\ calls' = NoCalls
  /\ inflight' = {}
  /\ primaryOutcome' = Pending
  /\ fallbackOutcome' = Pending
  /\ fetched' = Pending
  /\ prompt' = NoPrompt
  /\ rawContent' = <<>>
  /\ strategy' = "none"
  /\ result' = NoResult
  /\ warnings' = <<>>
  /\ UNCHANGED <<axClient, bootLog>>

Next ==
  \/ StartConversions
  \/ StartSummary
  \/ PrimaryResponds
  \/ PrimaryParsed
  \/ SecondaryResponds
  \/ SecondaryParsed
  \/ ChatSettles
  \/ NextRequest

Spec == Init /\ [][Next]_vars

TypeOK ==
  /\ pc \in {"idle", "primary_fetch", "primary_json", "secondary_fetch",
            "secondary_json", "chat", "returned", "thrown"}
  /\ entry \in {"none", "usd-conversions", "usd-market-summary"}
  /\ inflight \subseteq {"primary", "secondary", "llm"}
  /\ result.kind \in {"none", "output", "error"}
  /\ strategy \in {"none", "json", "split"}

\* ================================================================ claims
PrimarySucceeded == primaryOutcome.ok
PrimaryFailed == primaryOutcome # Pending /\ ~primaryOutcome.ok
SecondarySucceeded == fallbackOutcome.ok
SecondaryFailed == fallbackOutcome # Pending /\ ~fallbackOutcome.ok
Finished == pc \in {"returned", "thrown"}

\* C1: in a request whose Primary adapter returned a result, the Secondary
\* adapter is never called (its call count stays 0, nothing of it is in
\* flight or settled) and fetchUsdRates returns Primary's result, tagged
\* provider = "open.er-api".
C1_PrimarySuccessSkipsSecondary ==
  PrimarySucceeded =>
    /\ calls.secondary = 0
    /\ "secondary" \notin inflight
    /\ fallbackOutcome = Pending
    /\ fetched.ok
    /\ fetched.value = primaryOutcome.value
    /\ fetched.value.provider = "open.er-api"

C1_Witness ==
  /\ PrimarySucceeded
  /\ entry = "usd-conversions"
  /\ pc = "returned"
  /\ result.model = "open.er-api"

\* C2: whenever the Primary adapter has failed, for whatever reason, the
\* Secondary adapter has been called exactly once and only after that
\* failure; when Secondary then succeeds the caller gets its result, tagged
\* provider = "fawazahmed0/currency-api", and no error.
C2_FallbackOnceThenSecondaryResult ==
  /\ (primaryOutcome = Pending => calls.secondary = 0)
  /\ PrimaryFailed =>
       /\ calls.primary = 1
       /\ calls.secondary = 1
       /\ "primary" \notin inflight
       /\ SecondarySucceeded =>
            /\ fetched.ok
            /\ fetched.value = fallbackOutcome.value
            /\ fetched.value.provider = "fawazahmed0/currency-api"
            /\ (entry = "usd-conversions" =>
                  /\ result.kind = "output"
                  /\ result.model = "fawazahmed0/currency-api")

C2_Witness ==
  /\ PrimaryFailed
  /\ primaryOutcome.message[1] = "open.er-api responded with unexpected status "
  /\ SecondarySucceeded
  /\ entry = "usd-conversions"
  /\ pc = "returned"

\* C3: when both adapters have failed, the request ends with one error
\* whose message contains Primary's message and Secondary's message, each
\* unmodified, whatever the two failures are.
C3_AggregateCarriesBothMessages ==
  (PrimaryFailed /\ SecondaryFailed) =>
    /\ pc = "thrown"
    /\ result.kind = "error"
    /\ ~fetched.ok
    /\ fetched.message = result.message
    /\ Contains(result.message, primaryOutcome.message)
    /\ Contains(result.message, fallbackOutcome.message)

C3_Witness ==
  /\ PrimaryFailed
  /\ SecondaryFailed
  /\ primaryOutcome.message = JsonSyntaxMessage
  /\ fallbackOutcome.message = <<"jsDelivr currency API missing rate for ", "JPY", ".">>
  /\ result.kind = "error"

\* the lower-case codes of the secondary provider
LowerCodes == <<"eur", "cny", "jpy", "gbp", "aud">>

\* obj quotes a number under key
Quotes(obj, key) ==
  /\ obj.t = "object"
  /\ \E j \in 1..Len(obj.entries) :
       obj.entries[j].k = key /\ obj.entries[j].val.t = "number"

\* the number obj quotes under key
Quoted(obj, key) ==
  obj.entries[CHOOSE j \in 1..Len(obj.entries) : obj.entries[j].k = key].val

C4_FiveOrderedNumbers ==
  (entry = "usd-conversions" /\ result.kind = "output") =>
    /\ Len(result.output.rates) = 5
    /\ \A i \in 1..5 :
         /\ result.output.rates[i].currency = TOP_CURRENCIES[i]
         /\ result.output.rates[i].rate.t = "number"
         /\ result.output.rates[i].rate.s # "NaN"

C4_PartialTableFails ==
  /\ (pc = "primary_json" /\ \E i \in 1..5 : ~Quotes(response.body.rates, TOP_CURRENCIES[i]))
       => /\ ~primaryOutcome'.ok
          /\ pc' = "secondary_fetch"
          /\ calls'.secondary = 1
  /\ (pc = "secondary_json" /\ \E i \in 1..5 : ~Quotes(response.body.usd, LowerCodes[i]))
       => /\ ~fallbackOutcome'.ok
          /\ result'.kind = "error"
  /\ (pc = "primary_json" /\ entry = "usd-conversions" /\ pc' = "returned")
       => \A i \in 1..5 :
            result'.output.rates[i].rate = Quoted(response.body.rates, TOP_CURRENCIES[i])
  /\ (pc = "secondary_json" /\ entry = "usd-conversions" /\ pc' = "returned")
       => \A i \in 1..5 :
            result'.output.rates[i].rate = Quoted(response.body.usd, LowerCodes[i])

\* C4: a successful usd-conversions response has exactly five rate entries,
\* in the order EUR, CNY, JPY, GBP, AUD whatever the provider's member
\* order, each the number the provider quoted; a response that lacks a
\* number for any of the five makes its adapter fail, and for Primary the
\* Secondary is then called.
C4_CompleteOrderedRates == []C4_FiveOrderedNumbers /\ [][C4_PartialTableFails]_vars

C4_Witness ==
  /\ entry = "usd-conversions"
  /\ pc = "returned"
  /\ primaryOutcome.message = <<"open.er-api missing rate for ", "JPY", ".">>
  /\ SecondarySucceeded
  /\ Len(result.output.rates) = 5

C6_StatusErrorWhateverBody ==
  [][/\ (pc = "primary_json" /\ ~(response.status \in 200..299))
          => primaryOutcome'.message =
               <<"open.er-api responded with unexpected status ",
                 ToString(response.status), ".">>
     /\ (pc = "secondary_json" /\ ~(response.status \in 200..299))
          => fallbackOutcome'.message =
               <<"jsDelivr currency API responded with unexpected status ",
                 ToString(response.status), ".">>]_vars

\* C7: a request issues at most one call to each rate provider and at most
\* one generator call (none for usd-conversions), never has two calls in
\* flight, and starts Secondary only after Primary has settled as failed
\* and the generator only after the rates fetch has settled.
C7_SequentialBoundedCalls ==
  /\ calls.primary <= 1
  /\ calls.secondary <= 1
  /\ calls.llm <= 1
  /\ Cardinality(inflight) <= 1
  /\ (entry = "usd-conversions" => calls.llm = 0)
  /\ (calls.secondary = 1 => calls.primary = 1 /\ PrimaryFailed)
  /\ (calls.llm = 1 => fetched.ok /\ inflight \subseteq {"llm"})
  /\ ("primary" \in inflight <=> pc \in {"primary_fetch", "primary_json"})
  /\ ("secondary" \in inflight <=> pc \in {"secondary_fetch", "secondary_json"})
  /\ ("llm" \in inflight <=> pc = "chat")

C7_Witness ==
  /\ calls = [primary |-> 1, secondary |-> 1, llm |-> 1]
  /\ pc = "returned"
  /\ inflight = {}

\* C8: usd-conversions fails only when both adapters failed: once
\* fetchUsdRates has returned a result the handler returns an output, the
\* normalizer never throws "Missing rate for X", and the output's updatedAt
\* is a string also when the provider sent no timestamp.
C8_OnlyExhaustionFails ==
  /\ (result.kind = "error" => result.message[1] # "Missing rate for ")
  /\ (entry = "usd-conversions" /\ Finished) =>
       /\ (result.kind = "error" <=> PrimaryFailed /\ SecondaryFailed)
       /\ (fetched.ok => /\ result.kind = "output"
                         /\ result.output.updatedAt.t = "string")

C8_Witness ==
  /\ entry = "usd-conversions"
  /\ pc = "returned"
  /\ SecondarySucceeded
  /\ fetched.value.updatedAt.t = "undefined"
  /\ result.output.updatedAt.t = "string"

\* the lines of the text that keep a glyph after the leading bullet run
KeptLines(lines) ==
  {i \in 1..Len(lines) : \E j \in 1..Len(lines[i]) : lines[i][j] \notin StripClass}

\* the k-th smallest member of a set of numbers
Nth(set, k) == CHOOSE i \in set : Cardinality({m \in set : m <= i}) = k

\* a line from its first glyph outside the bullet run to its last glyph
\* that is no whitespace
Cleaned(line) ==
  LET first == CHOOSE j \in 1..Len(line) :
                 line[j] \notin StripClass /\ \A m \in 1..(j - 1) : line[m] \in StripClass
      last == CHOOSE j \in 1..Len(line) :
                 line[j] \notin Whitespace /\ \A m \in (j + 1)..Len(line) : line[m] \in Whitespace
  IN SubSeq(line, first, last)

SummaryReturned == entry = "usd-market-summary" /\ result.kind = "output"

\* the lines of the text that are not blank
NonBlank(lines) == {i \in 1..Len(lines) : Len(Trim(lines[i])) > 0}

C10_CheckThenRatesThenGenerator ==
  entry = "usd-market-summary" =>
    /\ ((~axClient.configured \/ ~axClient.ax) => calls = NoCalls /\ inflight = {})
    /\ (calls.llm > 0 => fetched.ok /\ calls.primary = 1)
    /\ ((PrimaryFailed /\ SecondaryFailed) =>
          /\ calls.llm = 0
          /\ pc = "thrown"
          /\ result.message[1] =
               "Unable to fetch USD conversion rates from available providers (primary: "
          /\ Contains(result.message, primaryOutcome.message)
          /\ Contains(result.message, fallbackOutcome.message))

C10_Witness ==
  /\ entry = "usd-market-summary"
  /\ PrimaryFailed
  /\ SecondaryFailed
  /\ pc = "thrown"
  /\ calls = [primary |-> 1, secondary |-> 1, llm |-> 0]

====
